---- MODULE Spec2Model ----
(***************************************************************************)
(* Model of foundation/main.c: the process entry points (main, WinMain,    *)
(* android_main), the native termination handlers (_main_console_handler,  *)
(* sighandler) and the Mac/iOS application delegate callbacks.             *)
(*                                                                         *)
(* The main thread is a program counter (pc) walking through the entry     *)
(* point; every native handler invocation is a slot of h with its own      *)
(* position, so that handler steps interleave with the main thread.        *)
(***************************************************************************)
EXTENDS Integers, Sequences, FiniteSets, TLC

\* ------------------------------------------------------------------ bounds
MaxExit     == 1      \* main_run / UI loop results range over -1..MaxExit
MaxHandlers == 1      \* native handler invocations per process
MaxCtrl     == 7      \* control types passed to _main_console_handler: 0..MaxCtrl
MaxSig      == 15     \* signal numbers passed to sighandler: 1..MaxSig

\* ------------------------------------------------- native codes (constants)
CTRL_C_EVENT        == 0
CTRL_BREAK_EVENT    == 1
CTRL_CLOSE_EVENT    == 2
CTRL_LOGOFF_EVENT   == 5
CTRL_SHUTDOWN_EVENT == 6
SIGINT  == 2
SIGQUIT == 3
SIGKILL == 9
SIGPIPE == 13
SIGTERM == 15
SLEEP_MS == 1000

Platforms      == {"windows", "wingui", "linux", "android", "macosx", "ios"}
ApplePlatforms == {"macosx", "ios"}
WinPlatforms   == {"windows", "wingui"}
\* FOUNDATION_PLATFORM_POSIX && !FOUNDATION_PLATFORM_ANDROID
PosixPlatforms == {"linux", "macosx", "ios"}

ExitCodes == (-1)..MaxExit
CtrlTypes == 0..MaxCtrl
Signals   == 1..MaxSig

VARIABLES
  platform,       \* which entry point / #if branch was compiled
  debug,          \* BUILD_DEBUG
  daemon,         \* config_bool( HASH_APPLICATION, HASH_DAEMON )
  bsdutility,     \* app_config_bool( _HASH_APPLICATION, _HASH_BSDUTILITY )
  dump_callback,  \* app->dump_callback != 0
  harness,        \* TRUE: the handler functions are called directly, no entry point runs
  pc,             \* position of the thread that entered main / WinMain / android_main
  ret,            \* the local variable ret
  exit,           \* what the entry point returned: kind "none" (not yet), "int" or "void"
  state,          \* lifecycle phase, derived from the initialize / run / shutdown calls
  trace,          \* calls made so far by the threads of the entry point, in order
  guarded,        \* main_run is executing under crash_guard
  name,           \* the crash label: "null", "allocated" or "freed"
  ctrlHandler,    \* SetConsoleCtrlHandler( _main_console_handler, TRUE ) was called
  sigHandlers,    \* signals whose disposition is sighandler
  sigIgnored,     \* signals whose disposition is SIG_IGN
  bundle,         \* _bundle: "null", "valid" or "released" (pointer is never reset)
  run_ret,        \* what the run function returned to the entry point: kind "none" or "int"
  runThread,      \* the secondary thread of the Mac UI path: "none", "running", "returned"
  events,         \* number of terminate events posted to the event system
  deferrals,      \* number of SetProcessShutdownParameters calls
  h               \* native handler invocations, h[i] for i \in 1..MaxHandlers

config == <<platform, debug, daemon, bsdutility, dump_callback, harness>>
mainv  == <<pc, ret, exit, state, trace, guarded, name, ctrlHandler, sigHandlers,
            sigIgnored, bundle, runThread, run_ret>>
handv  == <<events, deferrals, h>>
vars   == <<config, mainv, handv>>

\* a handler invocation that has not started
IdleHandler == [pc |-> "idle", code |-> 0, post_terminate |-> FALSE, handled |-> TRUE,
                ops |-> <<>>, slept |-> 0, result |-> "none", running |-> FALSE]

RECURSIVE Count(_, _)
Count(s, x) == IF s = <<>> THEN 0
               ELSE (IF Head(s) = x THEN 1 ELSE 0) + Count(Tail(s), x)

\* index of the first occurrence of x in s, 0 when absent
RECURSIVE IndexFrom(_, _, _)
IndexFrom(s, x, i) == IF i > Len(s) THEN 0
                      ELSE IF s[i] = x THEN i ELSE IndexFrom(s, x, i + 1)
First(s, x) == IndexFrom(s, x, 1)

Alive == pc \notin {"done", "crashed", "harness"}

InitCommon ==
  /\ ret = -1
  /\ exit = [kind |-> "none", value |-> 0]
  /\ state = "Unstarted"
  /\ trace = <<>>
  /\ guarded = FALSE
  /\ name = "null"
  /\ ctrlHandler = FALSE
  /\ sigHandlers = {}
  /\ sigIgnored = {}
  /\ runThread = "none"
  /\ run_ret = [kind |-> "none", value |-> 0]
  /\ events = 0
  /\ deferrals = 0
  /\ h = [i \in 1..MaxHandlers |-> IdleHandler]

\* The process at the call of its entry point.
Init ==
  /\ platform \in Platforms
  /\ debug \in BOOLEAN
  /\ daemon \in (IF platform \in WinPlatforms THEN BOOLEAN ELSE {FALSE})
  /\ bsdutility \in (IF platform \in ApplePlatforms THEN BOOLEAN ELSE {FALSE})
  /\ dump_callback \in (IF platform \in ApplePlatforms THEN {FALSE} ELSE BOOLEAN)
  /\ bundle \in (IF platform \in ApplePlatforms THEN {"null", "valid"} ELSE {"null"})
  /\ harness = FALSE
  /\ pc = "entry"
  /\ InitCommon

\* --------------------------------------------------------- the entry points

\* android_initialize( app ) < 0 -> return
AndroidInitialize(ok) ==
  /\ pc = "entry" /\ platform = "android"
  /\ trace' = Append(trace, IF ok THEN "android_initialize" ELSE "android_initialize_failed")
  /\ IF ok
       THEN pc' = "main_initialize" /\ exit' = exit
       ELSE pc' = "done" /\ exit' = [kind |-> "void", value |-> 0]
  /\ UNCHANGED <<config, handv, ret, state, guarded, name, ctrlHandler, sigHandlers,
                 sigIgnored, bundle, runThread, run_ret>>

\* what the entry point hands back when main_initialize() < 0:
\* "return;" in android_main, "return ret;" / "return -1;" elsewhere
InitFailureExit == IF platform = "android" THEN [kind |-> "void", value |-> 0]
                   ELSE [kind |-> "int", value |-> ret]

\* where the entry point continues after a successful main_initialize
AfterInitialize == IF platform = "android" THEN "thread_set_main" ELSE "install"

\* variant: the failure of main_initialize is not checked
MainInitialize_Unchecked(ok) ==
  /\ (pc = "entry" /\ platform # "android") \/ pc = "main_initialize"
  /\ trace' = Append(trace, IF ok THEN "main_initialize" ELSE "main_initialize_failed")
  /\ pc' = AfterInitialize
  /\ state' = IF ok THEN "Initialized" ELSE state
  /\ UNCHANGED <<config, handv, ret, exit, guarded, name, ctrlHandler, sigHandlers,
                 sigIgnored, bundle, runThread, run_ret>>

\* if( main_initialize() < 0 ) return ...;
MainInitialize(ok) ==
  /\ (pc = "entry" /\ platform # "android") \/ pc = "main_initialize"
  /\ trace' = Append(trace, IF ok THEN "main_initialize" ELSE "main_initialize_failed")
  /\ IF ok
       THEN pc' = AfterInitialize /\ state' = "Initialized" /\ exit' = exit
       ELSE pc' = "done" /\ state' = state /\ exit' = InitFailureExit
  /\ UNCHANGED <<config, handv, ret, guarded, name, ctrlHandler, sigHandlers,
                 sigIgnored, bundle, runThread, run_ret>>

\* signal() fails with EINVAL for the signals that cannot be caught
Catchable(sig) == sig # SIGKILL

\* variant: the sigaction call that ignores SIGPIPE is left out
InstallSignals_NoIgnore ==
  /\ pc = "install" /\ platform \in PosixPlatforms
  /\ sigHandlers' = {sig \in {SIGKILL, SIGTERM, SIGQUIT, SIGINT} : Catchable(sig)}
  /\ trace' = Append(trace, "install")
  /\ pc' = "thread_set_main"
  /\ UNCHANGED <<config, handv, ret, exit, state, guarded, name, ctrlHandler,
                 sigIgnored, bundle, runThread, run_ret>>

\* signal( SIGKILL / SIGTERM / SIGQUIT / SIGINT, sighandler ); sigaction( SIGPIPE, SIG_IGN )
InstallSignals ==
  /\ pc = "install" /\ platform \in PosixPlatforms
  /\ sigHandlers' = {sig \in {SIGKILL, SIGTERM, SIGQUIT, SIGINT} : Catchable(sig)}
  /\ sigIgnored' = {SIGPIPE}
  /\ trace' = Append(trace, "install")
  /\ pc' = "thread_set_main"
  /\ UNCHANGED <<config, handv, ret, exit, state, guarded, name, ctrlHandler,
                 bundle, runThread, run_ret>>

\* SetConsoleCtrlHandler( _main_console_handler, TRUE )
InstallConsoleHandler ==
  /\ pc = "install" /\ platform \in WinPlatforms
  /\ ctrlHandler' = TRUE
  /\ trace' = Append(trace, "install")
  /\ pc' = "thread_set_main"
  /\ UNCHANGED <<config, handv, ret, exit, state, guarded, name, sigHandlers,
                 sigIgnored, bundle, runThread, run_ret>>

\* variant: BUILD_DEBUG is not tested, the guarded branch is always compiled
AfterSetMain_NoDebug ==
  IF platform \in ApplePlatforms
    THEN IF ~bsdutility
           THEN (IF platform = "macosx" THEN "start_ns_thread" ELSE "ui_loop")
           ELSE "app_main"
    ELSE "build_name"

\* variant: Mac OS X enters the UI loop without starting the run thread
AfterSetMain_NoThread ==
  IF platform \in ApplePlatforms
    THEN (IF ~bsdutility THEN "ui_loop" ELSE "app_main")
    ELSE IF debug THEN "main_run" ELSE "build_name"

\* the statement that follows thread_set_main() in the compiled variant
AfterSetMain ==
  IF platform \in ApplePlatforms
    THEN IF ~bsdutility
           THEN (IF platform = "macosx" THEN "start_ns_thread" ELSE "ui_loop")
           ELSE "app_main"
    ELSE IF debug THEN "main_run" ELSE "build_name"

\* variant: the call of thread_set_main is left out
ThreadSetMain_Missing ==
  /\ pc = "thread_set_main"
  /\ pc' = AfterSetMain
  /\ UNCHANGED <<config, handv, ret, exit, state, trace, guarded, name, ctrlHandler,
                 sigHandlers, sigIgnored, bundle, runThread, run_ret>>

\* thread_set_main()
ThreadSetMain ==
  /\ pc = "thread_set_main"
  /\ trace' = Append(trace, "thread_set_main")
  /\ pc' = AfterSetMain
  /\ UNCHANGED <<config, handv, ret, exit, state, guarded, name, ctrlHandler,
                 sigHandlers, sigIgnored, bundle, runThread, run_ret>>

\* name = string_clone( ... ); name = string_append( name, "-" ); name = string_append( name, version )
BuildName ==
  /\ pc = "build_name"
  /\ name' = "allocated"
  /\ trace' = Append(trace, "string_clone")
  /\ pc' = IF dump_callback THEN "crash_guard_set" ELSE "crash_guard"
  /\ UNCHANGED <<config, handv, ret, exit, state, guarded, ctrlHandler,
                 sigHandlers, sigIgnored, bundle, runThread, run_ret>>

\* if( app->dump_callback ) crash_guard_set( app->dump_callback, name )
CrashGuardSet ==
  /\ pc = "crash_guard_set"
  /\ trace' = Append(trace, "crash_guard_set")
  /\ pc' = "crash_guard"
  /\ UNCHANGED <<config, handv, ret, exit, state, guarded, name, ctrlHandler,
                 sigHandlers, sigIgnored, bundle, runThread, run_ret>>

\* crash_guard( main_run, 0, app->dump_callback, name ): main_run starts under the guard
CrashGuardCall ==
  /\ pc = "crash_guard"
  /\ trace' = Append(Append(trace, "crash_guard"), "run")
  /\ guarded' = TRUE
  /\ state' = "Running"
  /\ pc' = "in_run"
  /\ UNCHANGED <<config, handv, ret, exit, name, ctrlHandler,
                 sigHandlers, sigIgnored, bundle, runThread, run_ret>>

\* ret = main_run( 0 ) in a debug build; ret = app_main( 0 ) for a Mac/iOS BSD utility
RunDirect ==
  /\ pc \in {"main_run", "app_main"}
  /\ trace' = Append(trace, "run")
  /\ state' = "Running"
  /\ pc' = "in_run"
  /\ UNCHANGED <<config, handv, ret, exit, guarded, name, ctrlHandler,
                 sigHandlers, sigIgnored, bundle, runThread, run_ret>>

\* crash_guard's result when the guarded function returned c without a fault
crash_guard(c) == c

\* the value assigned to ret when the run function returns c
RunResult(c) == IF guarded THEN crash_guard(c) ELSE c

\* variant: the label is not released after the guarded run
AfterRun_Leak == "main_shutdown"

\* the statement that follows the run in the compiled variant
AfterRun == IF guarded THEN "string_deallocate" ELSE "main_shutdown"

\* the run function returns c to the entry point
RunReturn(c) ==
  /\ pc = "in_run"
  /\ ret' = RunResult(c)
  /\ run_ret' = [kind |-> "int", value |-> c]
  /\ trace' = Append(trace, "run_return")
  /\ state' = "Terminating"
  /\ guarded' = FALSE
  /\ pc' = AfterRun
  /\ UNCHANGED <<config, handv, exit, name, ctrlHandler,
                 sigHandlers, sigIgnored, bundle, runThread>>

\* the run function faults: the guard hands the fault to the dump callback,
\* then the process ends on the native fault path
RunFault ==
  /\ pc = "in_run"
  /\ trace' = IF guarded /\ dump_callback THEN Append(trace, "dump_callback") ELSE trace
  /\ pc' = "crashed"
  /\ UNCHANGED <<config, handv, ret, exit, state, guarded, name, ctrlHandler,
                 sigHandlers, sigIgnored, bundle, runThread, run_ret>>

\* string_deallocate( name )
StringDeallocate ==
  /\ pc = "string_deallocate"
  /\ name' = "freed"
  /\ trace' = Append(trace, "string_deallocate")
  /\ pc' = "main_shutdown"
  /\ UNCHANGED <<config, handv, ret, exit, state, guarded, ctrlHandler,
                 sigHandlers, sigIgnored, bundle, runThread, run_ret>>

\* the statement that follows main_shutdown() in the compiled variant
AfterShutdown ==
  IF platform \in ApplePlatforms THEN "release_bundle"
  ELSE IF platform = "android" THEN "android_shutdown" ELSE "return"

\* main_shutdown()
MainShutdown ==
  /\ pc = "main_shutdown"
  /\ trace' = Append(trace, "main_shutdown")
  /\ state' = "ShutDown"
  /\ pc' = AfterShutdown
  /\ UNCHANGED <<config, handv, ret, exit, guarded, name, ctrlHandler,
                 sigHandlers, sigIgnored, bundle, runThread, run_ret>>

\* if( _bundle ) CFRelease( _bundle ): the pointer is tested, never cleared
ReleaseBundle ==
  /\ pc = "release_bundle"
  /\ IF bundle # "null"
       THEN trace' = Append(trace, "CFRelease") /\ bundle' = "released"
       ELSE trace' = trace /\ bundle' = bundle
  /\ pc' = "return"
  /\ UNCHANGED <<config, handv, ret, exit, state, guarded, name, ctrlHandler,
                 sigHandlers, sigIgnored, runThread, run_ret>>

\* android_shutdown(), then android_main falls off its end
AndroidShutdown ==
  /\ pc = "android_shutdown"
  /\ trace' = Append(trace, "android_shutdown")
  /\ exit' = [kind |-> "void", value |-> 0]
  /\ pc' = "done"
  /\ UNCHANGED <<config, handv, ret, state, guarded, name, ctrlHandler,
                 sigHandlers, sigIgnored, bundle, runThread, run_ret>>

\* variant: the entry point returns the initial value of ret
Return_Initial ==
  /\ pc = "return"
  /\ exit' = [kind |-> "int", value |-> -1]
  /\ pc' = "done"
  /\ UNCHANGED <<config, handv, ret, state, trace, guarded, name, ctrlHandler,
                 sigHandlers, sigIgnored, bundle, runThread, run_ret>>

\* return ret
Return ==
  /\ pc = "return"
  /\ exit' = [kind |-> "int", value |-> ret]
  /\ pc' = "done"
  /\ UNCHANGED <<config, handv, ret, state, trace, guarded, name, ctrlHandler,
                 sigHandlers, sigIgnored, bundle, runThread, run_ret>>

\* ------------------------------------------- the Mac / iOS UI-driven variant

\* _app_start_main_ns_thread( argc, argv ): "fire up new thread to continue engine";
\* the calling thread goes on to NSApplicationMain
AppStartMainNsThread ==
  /\ pc = "start_ns_thread"
  /\ runThread' = "running"
  /\ state' = "Running"
  /\ trace' = Append(trace, "run")
  /\ pc' = "ui_loop"
  /\ UNCHANGED <<config, handv, ret, exit, guarded, name, ctrlHandler,
                 sigHandlers, sigIgnored, bundle, run_ret>>

\* the run function of the secondary thread returns; nothing in main.c waits for it
RunThreadReturn ==
  /\ Alive /\ runThread = "running"
  /\ runThread' = "returned"
  /\ state' = IF state = "Running" THEN "Terminating" ELSE state
  /\ trace' = Append(trace, "run_return")
  /\ UNCHANGED <<config, handv, pc, ret, exit, guarded, name, ctrlHandler,
                 sigHandlers, sigIgnored, bundle, run_ret>>

\* _app_did_finish_launching: _app_main_pre_loop() on iOS, nothing on Mac OS X
AppDidFinishLaunching ==
  /\ pc = "ui_loop"
  /\ Count(trace, "did_finish_launching") = 0
  /\ trace' = IF platform = "ios"
                THEN Append(Append(trace, "did_finish_launching"), "_app_main_pre_loop")
                ELSE Append(trace, "did_finish_launching")
  /\ state' = IF platform = "ios" THEN "Running" ELSE state
  /\ UNCHANGED <<config, handv, pc, ret, exit, guarded, name, ctrlHandler,
                 sigHandlers, sigIgnored, bundle, runThread, run_ret>>

\* _app_will_terminate, on the thread of the UI loop (once per process), first part:
\* system_event_post( COREEVENT_TERMINATE ); app_pump_events(); _app_main_post_loop();
\* core_terminate_services()
AppWillTerminate ==
  /\ pc = "ui_loop"
  /\ Count(trace, "did_finish_launching") = 1
  /\ Count(trace, "will_terminate") = 0
  /\ trace' = trace \o <<"will_terminate", "system_event_post", "app_pump_events",
                         "_app_main_post_loop", "core_terminate_services">>
  /\ events' = events + 1
  /\ state' = IF platform = "ios" /\ state = "Running" THEN "Terminating" ELSE state
  /\ pc' = "will_terminate"
  /\ UNCHANGED <<config, deferrals, h, ret, exit, guarded, name, ctrlHandler,
                 sigHandlers, sigIgnored, bundle, runThread, run_ret>>

\* the calls of the second part of _app_will_terminate, in order
WillTerminateCleanup ==
  (IF bundle # "null" THEN <<"CFRelease">> ELSE <<>>)
  \o <<"app_exit", "_app_post_exit", "array_deallocate", "core_shutdown">>

\* _app_will_terminate, second part: if( _bundle ) CFRelease( _bundle ); app_exit();
\* _app_post_exit(); array_deallocate( _invoke_argv ); core_shutdown()
AppWillTerminateCleanup ==
  /\ pc = "will_terminate"
  /\ trace' = trace \o WillTerminateCleanup
  /\ bundle' = IF bundle # "null" THEN "released" ELSE bundle
  /\ state' = "ShutDown"
  /\ pc' = "ui_loop"
  /\ UNCHANGED <<config, handv, ret, exit, guarded, name, ctrlHandler,
                 sigHandlers, sigIgnored, runThread, run_ret>>

\* ret = NSApplicationMain( argc, argv ) / ret = UIApplicationMain( argc, argv, 0, 0 )
UILoopReturn(c) ==
  /\ pc = "ui_loop"
  /\ Count(trace, "did_finish_launching") = 1
  /\ ret' = c
  /\ trace' = Append(trace, "ui_loop_return")
  /\ pc' = "main_shutdown"
  /\ UNCHANGED <<config, handv, exit, state, guarded, name, ctrlHandler,
                 sigHandlers, sigIgnored, bundle, runThread, run_ret>>

\* ------------------------------------------- the native termination handlers

\* variant: CTRL_CLOSE does not set post_terminate
ConsolePostTerminate_NoClose(control_type) ==
  CASE control_type = CTRL_C_EVENT        -> TRUE
    [] control_type = CTRL_LOGOFF_EVENT   -> ~daemon
    [] control_type = CTRL_SHUTDOWN_EVENT -> TRUE
    [] OTHER                              -> FALSE

\* the switch of _main_console_handler: post_terminate
ConsolePostTerminate(control_type) ==
  CASE control_type = CTRL_C_EVENT        -> TRUE
    [] control_type = CTRL_BREAK_EVENT    -> FALSE
    [] control_type = CTRL_CLOSE_EVENT    -> TRUE
    [] control_type = CTRL_LOGOFF_EVENT   -> ~daemon
    [] control_type = CTRL_SHUTDOWN_EVENT -> TRUE
    [] OTHER                              -> FALSE

\* variant: no default case, handled keeps its initial value
ConsoleHandled_NoDefault(control_type) == TRUE

\* the switch of _main_console_handler: handled
ConsoleHandled(control_type) ==
  control_type \in {CTRL_C_EVENT, CTRL_BREAK_EVENT, CTRL_CLOSE_EVENT,
                    CTRL_LOGOFF_EVENT, CTRL_SHUTDOWN_EVENT}

\* variant: only the signals asking for termination post the event
SigPostTerminate_TermOnly(sig) == sig \in {SIGTERM, SIGKILL}

\* sighandler posts whatever the switch found: the switch only picks signame
SigPostTerminate(sig) == TRUE

\* the control types the console delivers to a registered handler
DeliveredCtrl == {CTRL_C_EVENT, CTRL_BREAK_EVENT, CTRL_CLOSE_EVENT,
                  CTRL_LOGOFF_EVENT, CTRL_SHUTDOWN_EVENT}

\* the codes the handler of this platform can be entered with
Deliverable ==
  IF harness
    THEN (IF platform \in WinPlatforms THEN CtrlTypes ELSE Signals)
    ELSE IF ~Alive THEN {}
    ELSE IF platform \in WinPlatforms
           THEN (IF ctrlHandler THEN DeliveredCtrl ELSE {})
           ELSE sigHandlers

HandlerLive == harness \/ Alive

\* entry of _main_console_handler( control_type ) / sighandler( sig ): the switch and the log
HandlerEnter(i, code) ==
  /\ h[i].pc = "idle"
  /\ \A j \in 1..(i - 1) : h[j].pc # "idle"
  /\ code \in Deliverable
  /\ LET post == IF platform \in WinPlatforms THEN ConsolePostTerminate(code)
                 ELSE SigPostTerminate(code)
         hand == IF platform \in WinPlatforms THEN ConsoleHandled(code) ELSE TRUE
     IN h' = [h EXCEPT ![i] = [pc |-> IF post THEN "post" ELSE "return",
                                code |-> code, post_terminate |-> post, handled |-> hand,
                                ops |-> <<>>, slept |-> 0, result |-> "none",
                                running |-> (state = "Running")]]
  /\ UNCHANGED <<config, mainv, events, deferrals>>

\* variant: the pause comes right after the post, the deferral request is left out
HandlerPost_NoDefer(i) ==
  /\ HandlerLive /\ h[i].pc = "post"
  /\ events' = events + 1
  /\ h' = [h EXCEPT ![i].ops = Append(@, "post"),
                    ![i].pc = IF platform \in WinPlatforms THEN "sleep" ELSE "return"]
  /\ UNCHANGED <<config, mainv, deferrals>>

\* system_post_event( FOUNDATIONEVENT_TERMINATE )
HandlerPost(i) ==
  /\ HandlerLive /\ h[i].pc = "post"
  /\ events' = events + 1
  /\ h' = [h EXCEPT ![i].ops = Append(@, "post"),
                    ![i].pc = IF platform \in WinPlatforms THEN "params" ELSE "return"]
  /\ UNCHANGED <<config, mainv, deferrals>>

\* GetProcessShutdownParameters( &level, &flags ); SetProcessShutdownParameters( level, SHUTDOWN_NORETRY )
HandlerParams(i) ==
  /\ HandlerLive /\ h[i].pc = "params"
  /\ deferrals' = deferrals + 1
  /\ h' = [h EXCEPT ![i].ops = Append(@, "defer"), ![i].pc = "sleep"]
  /\ UNCHANGED <<config, mainv, events>>

\* variant: the handler waits for the process to end instead of pausing once
HandlerSleep_Unbounded(i) ==
  /\ HandlerLive /\ h[i].pc = "sleep"
  /\ h' = [h EXCEPT ![i].ops = <<"post", "defer", "sleep">>, ![i].slept = SLEEP_MS]
  /\ UNCHANGED <<config, mainv, events, deferrals>>

\* thread_sleep( 1000 )
HandlerSleep(i) ==
  /\ HandlerLive /\ h[i].pc = "sleep"
  /\ h' = [h EXCEPT ![i].ops = Append(@, "sleep"), ![i].slept = @ + SLEEP_MS,
                    ![i].pc = "return"]
  /\ UNCHANGED <<config, mainv, events, deferrals>>

\* what the handler hands back: "return handled" on Windows, nothing from sighandler
HandlerResult(r) == IF platform \in WinPlatforms
                      THEN (IF r.handled THEN "TRUE" ELSE "FALSE")
                      ELSE "void"

\* variant: the handler ends the process, process_exit( -1 )
HandlerReturn_Exit(i) ==
  /\ HandlerLive /\ h[i].pc = "return"
  /\ h' = [h EXCEPT ![i].result = HandlerResult(h[i]), ![i].pc = "done"]
  /\ pc' = IF harness THEN pc ELSE "done"
  /\ exit' = IF harness THEN exit ELSE [kind |-> "int", value |-> -1]
  /\ UNCHANGED <<config, events, deferrals, ret, state, trace, guarded, name, ctrlHandler,
                 sigHandlers, sigIgnored, bundle, runThread, run_ret>>

\* return of the handler
HandlerReturn(i) ==
  /\ HandlerLive /\ h[i].pc = "return"
  /\ h' = [h EXCEPT ![i].result = HandlerResult(h[i]), ![i].pc = "done"]
  /\ UNCHANGED <<config, mainv, events, deferrals>>

\* a SIGPIPE raised in the process (a write to a closed pipe or socket): discarded when
\* the disposition is SIG_IGN, fatal while the disposition is still the default one
DeliverSigpipe(i) ==
  /\ ~harness /\ Alive /\ platform \in PosixPlatforms
  /\ SIGPIPE \notin sigHandlers
  /\ h[i].pc = "idle"
  /\ \A j \in 1..(i - 1) : h[j].pc # "idle"
  /\ IF SIGPIPE \in sigIgnored
       THEN /\ h' = [h EXCEPT ![i] = [IdleHandler EXCEPT !.pc = "done", !.code = SIGPIPE,
                                                        !.result = "ignored",
                                                        !.running = (state = "Running")]]
            /\ UNCHANGED <<pc, trace>>
       ELSE /\ pc' = "crashed"
            /\ trace' = Append(trace, "killed_by_SIGPIPE")
            /\ h' = h
  /\ UNCHANGED <<config, events, deferrals, ret, exit, state, guarded, name, ctrlHandler,
                 sigHandlers, sigIgnored, bundle, runThread, run_ret>>

\* ------------------------------------------------------------ specifications

MainNext ==
  \/ \E ok \in BOOLEAN : AndroidInitialize(ok)
  \/ \E ok \in BOOLEAN : MainInitialize(ok)
  \/ InstallSignals
  \/ InstallConsoleHandler
  \/ ThreadSetMain
  \/ BuildName
  \/ CrashGuardSet
  \/ CrashGuardCall
  \/ RunDirect
  \/ \E c \in ExitCodes : RunReturn(c)
  \/ RunFault
  \/ StringDeallocate
  \/ MainShutdown
  \/ ReleaseBundle
  \/ AndroidShutdown
  \/ Return
  \/ AppStartMainNsThread
  \/ RunThreadReturn
  \/ AppDidFinishLaunching
  \/ AppWillTerminate
  \/ AppWillTerminateCleanup
  \/ \E c \in ExitCodes : UILoopReturn(c)

HandlerNext ==
  \/ \E i \in 1..MaxHandlers : \E code \in CtrlTypes \cup Signals : HandlerEnter(i, code)
  \/ \E i \in 1..MaxHandlers : HandlerPost(i)
  \/ \E i \in 1..MaxHandlers : HandlerParams(i)
  \/ \E i \in 1..MaxHandlers : HandlerSleep(i)
  \/ \E i \in 1..MaxHandlers : HandlerReturn(i)

SignalNext == \E i \in 1..MaxHandlers : DeliverSigpipe(i)

Next == MainNext \/ HandlerNext \/ SignalNext

\* the process from its entry point, with the handlers the OS invokes
Spec == Init /\ [][Next]_vars

\* the handler functions called directly with every code of their argument type
InitHandler ==
  /\ platform \in WinPlatforms \cup PosixPlatforms
  /\ debug = FALSE
  /\ daemon \in (IF platform \in WinPlatforms THEN BOOLEAN ELSE {FALSE})
  /\ bsdutility = FALSE
  /\ dump_callback = FALSE
  /\ bundle = "null"
  /\ harness = TRUE
  /\ pc = "harness"
  /\ InitCommon

SpecHandler == InitHandler /\ [][HandlerNext]_vars

\* the statements of a handler invocation after its entry
HandlerSteps(i) == HandlerPost(i) \/ HandlerParams(i) \/ HandlerSleep(i) \/ HandlerReturn(i)

\* the handler functions called directly, on a thread the OS keeps scheduling: the event
\* post does not block and thread_sleep( 1000 ) ends after its second
SpecHandlerFair ==
  /\ InitHandler /\ [][HandlerNext]_vars
  /\ \A i \in 1..MaxHandlers : WF_vars(HandlerSteps(i))

\* ------------------------------------------------------------------- claims

Slots == 1..MaxHandlers
Done(i) == h[i].pc = "done"
Posts(i) == Count(h[i].ops, "post")
OnWindows == platform \in WinPlatforms

RECURSIVE PostsUpTo(_)
PostsUpTo(n) == IF n = 0 THEN 0 ELSE Posts(n) + PostsUpTo(n - 1)

InitCalls     == Count(trace, "main_initialize") + Count(trace, "main_initialize_failed")
RunCalls      == Count(trace, "run") + Count(trace, "_app_main_pre_loop")
ShutdownCalls == Count(trace, "main_shutdown") + Count(trace, "core_shutdown")
InitFailed    == Count(trace, "main_initialize_failed") > 0
HandlersInstalled == ctrlHandler \/ sigHandlers # {}

\* what C1 says of every state, but for the value handed back
C1_NoRunWithoutInit ==
  /\ RunCalls > 0 => Count(trace, "main_initialize") = 1
  /\ InitFailed =>
       /\ pc = "done"
       /\ ~HandlersInstalled
       /\ Count(trace, "install") = 0
       /\ Count(trace, "thread_set_main") = 0
       /\ RunCalls = 0
       /\ ShutdownCalls = 0

\* C1 as stated: run is never invoked unless main_initialize succeeded, and when it
\* fails every entry point (android_main too) returns the exit code -1 at once, with
\* no handler installed, no thread_set_main, no run and no shutdown.
C1_Original ==
  /\ C1_NoRunWithoutInit
  /\ InitFailed => exit = [kind |-> "int", value |-> -1]

\* C1 amended: as C1, except that the failure exit code -1 is returned by main and
\* WinMain only; android_main is void and returns without a value.
C1_Amended ==
  /\ C1_NoRunWithoutInit
  /\ InitFailed => exit = (IF platform = "android" THEN [kind |-> "void", value |-> 0]
                           ELSE [kind |-> "int", value |-> -1])

C1_Witness == InitFailed /\ pc = "done" /\ exit.kind = "int" /\ platform = "wingui"

\* C2: on every platform variant each of the phases initialize, run and shutdown
\* (main_shutdown or core_shutdown) is executed at most once in a process.
C2_AtMostOnce == InitCalls <= 1 /\ RunCalls <= 1 /\ ShutdownCalls <= 1

Rank(st) == CASE st = "Unstarted"   -> 0
              [] st = "Initialized" -> 1
              [] st = "Running"     -> 2
              [] st = "Terminating" -> 3
              [] st = "ShutDown"    -> 4

\* C3: the lifecycle state only moves forward through Unstarted, Initialized, Running,
\* Terminating, ShutDown; no step goes backwards and none skips a state.
C3_ForwardNoSkip == [][state' # state => Rank(state') = Rank(state) + 1]_vars

MappedCtrl == {CTRL_C_EVENT, CTRL_CLOSE_EVENT, CTRL_LOGOFF_EVENT, CTRL_SHUTDOWN_EVENT}
MappedSig  == {SIGINT, SIGQUIT, SIGTERM, SIGKILL}
IsMapped(code) == IF OnWindows THEN code \in MappedCtrl ELSE code \in MappedSig

\* C4 as stated: for every cause of the mapping table and every value of the daemon
\* configuration, one invocation of the handler posts exactly one terminate event.
C4_Original ==
  \A i \in Slots : Done(i) /\ IsMapped(h[i].code) => Posts(i) = 1

\* C4 amended: one invocation posts exactly one terminate event for every cause of the
\* table, except CTRL_LOGOFF, which posts one event when the daemon configuration is
\* false and none when it is true.
C4_Amended ==
  /\ \A i \in Slots : Done(i) /\ IsMapped(h[i].code) =>
        Posts(i) = (IF OnWindows /\ h[i].code = CTRL_LOGOFF_EVENT /\ daemon THEN 0 ELSE 1)
  /\ (\A i \in Slots : h[i].pc \in {"idle", "done"}) => events = PostsUpTo(MaxHandlers)

C4_Witness ==
  \E i \in Slots : Done(i) /\ OnWindows /\ daemon /\ h[i].code = CTRL_LOGOFF_EVENT
                   /\ Posts(i) = 0 /\ h[i].result = "TRUE"

\* C5 as stated: for every code outside the mapping table (CTRL_BREAK, any other
\* control type, any other signal number) the handler posts no terminate event and,
\* on Windows, returns FALSE.
C5_Original ==
  \A i \in Slots : Done(i) /\ ~IsMapped(h[i].code) =>
     /\ Posts(i) = 0
     /\ OnWindows => h[i].result = "FALSE"

\* C5 amended: _main_console_handler posts no terminate event for a control type
\* outside the table; it returns FALSE for the types its switch does not name and TRUE
\* for CTRL_BREAK.  sighandler posts one terminate event for every signal number.
C5_Amended ==
  \A i \in Slots : Done(i) /\ ~IsMapped(h[i].code) =>
     IF OnWindows
       THEN /\ Posts(i) = 0
            /\ h[i].result = (IF h[i].code = CTRL_BREAK_EVENT THEN "TRUE" ELSE "FALSE")
       ELSE /\ Posts(i) = 1
            /\ h[i].result = "void"

C5_Witness ==
  \E i \in Slots : Done(i) /\ OnWindows /\ h[i].code \notin DeliveredCtrl
                   /\ Posts(i) = 0 /\ h[i].result = "FALSE"

UserInterrupt(code) == IF OnWindows THEN code = CTRL_C_EVENT ELSE code \in {SIGINT, SIGQUIT}

\* C6 as stated: a user interrupt (CTRL_C, SIGINT, SIGQUIT) arriving during Running
\* posts exactly one terminate event, requests no shutdown deferral and does not pause.
C6_Original ==
  \A i \in Slots : Done(i) /\ h[i].running /\ UserInterrupt(h[i].code) =>
     h[i].ops = <<"post">>

\* C6 amended: a user interrupt arriving during Running posts exactly one terminate
\* event; sighandler then returns without deferral or pause, while the Windows handler
\* also requests the shutdown deferral and pauses one second for CTRL_C.
C6_Amended ==
  \A i \in Slots : Done(i) /\ h[i].running /\ UserInterrupt(h[i].code) =>
     /\ h[i].ops = (IF OnWindows THEN <<"post", "defer", "sleep">> ELSE <<"post">>)
     /\ h[i].slept = (IF OnWindows THEN SLEEP_MS ELSE 0)

C6_Witness ==
  \E i \in Slots : Done(i) /\ h[i].running /\ OnWindows /\ h[i].code = CTRL_C_EVENT
                   /\ deferrals > 0

C8_PostDeferPause ==
  \A i \in Slots : OnWindows /\ ~daemon
                   /\ h[i].code \in {CTRL_SHUTDOWN_EVENT, CTRL_CLOSE_EVENT} =>
     /\ h[i].pc = "return" \/ Done(i) =>
          h[i].ops = <<"post", "defer", "sleep">> /\ h[i].slept = SLEEP_MS
     /\ Done(i) => h[i].result = "TRUE"
     /\ h[i].result # "none" => Done(i)

C8_Witness ==
  \E i \in Slots : Done(i) /\ OnWindows /\ ~daemon /\ h[i].code = CTRL_SHUTDOWN_EVENT
                   /\ h[i].result = "TRUE"

ConsolePaths == {"windows", "wingui", "linux"}

\* C9: on the console and the Windows GUI path, when the run function returns c
\* normally the entry point returns exactly c, whatever the build and the dump callback.
C9_ExitCode ==
  pc = "done" /\ platform \in ConsolePaths /\ run_ret.kind = "int" =>
     exit = [kind |-> "int", value |-> run_ret.value]

C9_Witness ==
  /\ pc = "done" /\ platform = "wingui" /\ ~debug /\ dump_callback
  /\ run_ret.kind = "int" /\ run_ret.value = 0 /\ exit.value = 0

C11_DebugDirect ==
  debug => /\ Count(trace, "string_clone") = 0
           /\ Count(trace, "crash_guard_set") = 0
           /\ Count(trace, "crash_guard") = 0
           /\ ~guarded

\* what C11 says of a build that routes run through the guard
C11_Guarded ==
  RunCalls > 0 =>
     /\ Count(trace, "crash_guard") = 1
     /\ First(trace, "crash_guard") + 1 = First(trace, "run")
     /\ Count(trace, "crash_guard_set") = (IF dump_callback THEN 1 ELSE 0)
     /\ dump_callback => First(trace, "crash_guard_set") < First(trace, "crash_guard")

\* C11 as stated: a debug build calls run directly (no crash_guard_set, no crash_guard,
\* no label) whatever the dump callback; a non-debug build always routes run through
\* crash_guard, with crash_guard_set before it exactly when a dump callback is declared.
C11_Original ==
  /\ C11_DebugDirect
  /\ ~debug => C11_Guarded

\* C11 amended: as C11 for main on the console platforms and Android and for WinMain;
\* the Mac/iOS variant of main never uses the crash guard, in a debug build or not: it
\* calls app_main directly or enters the UI loop.
C11_Amended ==
  /\ C11_DebugDirect
  /\ ~debug /\ platform \notin ApplePlatforms => C11_Guarded
  /\ platform \in ApplePlatforms => /\ Count(trace, "crash_guard") = 0
                                    /\ Count(trace, "crash_guard_set") = 0
                                    /\ Count(trace, "string_clone") = 0

C11_Witness ==
  /\ debug /\ dump_callback /\ pc = "in_run" /\ ~guarded
  /\ platform = "wingui" /\ Count(trace, "run") = 1

\* C12: on POSIX SIGPIPE is set to ignored when the handlers are installed, before run
\* starts and for the rest of the process, so a SIGPIPE delivered after the installation
\* never enters sighandler, never posts a terminate event and never ends the process.
C12_SigpipeIgnored ==
  ~harness /\ platform \in PosixPlatforms =>
     /\ SIGPIPE \notin sigHandlers
     /\ Count(trace, "install") > 0 => SIGPIPE \in sigIgnored
     /\ RunCalls > 0 => Count(trace, "install") = 1
     /\ Count(trace, "killed_by_SIGPIPE") > 0 => Count(trace, "install") = 0
     /\ \A i \in Slots : h[i].pc # "idle" /\ h[i].code = SIGPIPE =>
          /\ Done(i) /\ h[i].result = "ignored"
          /\ h[i].ops = <<>>
          /\ events = PostsUpTo(MaxHandlers) + Count(trace, "system_event_post")

C12_Witness ==
  \E i \in Slots : /\ h[i].code = SIGPIPE /\ h[i].result = "ignored" /\ h[i].running
                   /\ platform = "linux" /\ events = 0 /\ pc = "done"

\* the earlier of two positions of a trace, 0 meaning absent
Earlier(a, b) == IF a = 0 THEN b ELSE IF b = 0 THEN a ELSE IF a < b THEN a ELSE b

RunStartAt == Earlier(First(trace, "run"), First(trace, "_app_main_pre_loop"))
RunEndAt   == Earlier(First(trace, "run_return"), First(trace, "_app_main_post_loop"))
ShutdownAt == Earlier(First(trace, "main_shutdown"), First(trace, "core_shutdown"))

\* C13: where initialize succeeds, the termination handlers (on the variants that have
\* them) are installed after initialize and before the run phase begins, and shutdown is
\* called only after run has returned: initialize, install, run, shutdown in that order.
C13_PhaseOrder ==
  /\ Count(trace, "install") > 0 =>
       /\ First(trace, "main_initialize") > 0
       /\ First(trace, "main_initialize") < First(trace, "install")
  /\ RunStartAt > 0 /\ platform # "android" =>
       /\ First(trace, "install") > 0
       /\ First(trace, "install") < RunStartAt
  /\ ShutdownAt > 0 =>
       /\ RunStartAt > 0 /\ RunStartAt < ShutdownAt
       /\ RunEndAt > 0 /\ RunEndAt < ShutdownAt

\* the cleanup that C14 requires before the shutdown call found at position at
CleanupBefore(at) ==
  /\ First(trace, "array_deallocate") > 0
  /\ First(trace, "array_deallocate") < at
  /\ bundle # "null" => /\ First(trace, "CFRelease") > 0
                        /\ First(trace, "CFRelease") < First(trace, "array_deallocate")

\* C14: on the Mac/iOS UI-driven path every cleanup path releases the bundle handle,
\* then the argument-vector storage, and only then calls shutdown: in _app_will_terminate
\* (after it posted the terminate event and pumped the events) and in the tail of main.
C14_CleanupOrder ==
  platform \in ApplePlatforms /\ ~bsdutility =>
     /\ First(trace, "core_shutdown") > 0 =>
          /\ CleanupBefore(First(trace, "core_shutdown"))
          /\ First(trace, "system_event_post") < First(trace, "app_pump_events")
          /\ First(trace, "app_pump_events") < First(trace, "array_deallocate")
     /\ First(trace, "main_shutdown") > 0 =>
          CleanupBefore(First(trace, "main_shutdown"))

\* C15: the main thread identity is set exactly once per process, by the thread that
\* called initialize, after initialize succeeded and before the run phase begins (so
\* before any secondary run thread exists), and it is never set again.
C15_MainThreadOnce ==
  /\ Count(trace, "thread_set_main") <= 1
  /\ InitFailed => Count(trace, "thread_set_main") = 0
  /\ Count(trace, "thread_set_main") = 1 =>
       /\ First(trace, "main_initialize") > 0
       /\ First(trace, "main_initialize") < First(trace, "thread_set_main")
  /\ RunStartAt > 0 =>
       /\ Count(trace, "thread_set_main") = 1
       /\ First(trace, "thread_set_main") < RunStartAt
  /\ runThread # "none" => Count(trace, "thread_set_main") = 1
  /\ pc \in {"ui_loop", "will_terminate", "in_run"} => Count(trace, "thread_set_main") = 1

C15_Witness ==
  /\ platform = "macosx" /\ runThread = "returned" /\ pc = "done"
  /\ Count(trace, "thread_set_main") = 1 /\ Count(trace, "core_shutdown") = 1

InUILoop == pc \in {"ui_loop", "will_terminate"}

\* what C16 says of a BSD utility: the entry function runs on the calling thread, no
\* secondary thread and no UI loop; and without the flag the entry is not called directly
C16_Headless ==
  /\ bsdutility => runThread = "none" /\ ~InUILoop /\ Count(trace, "ui_loop_return") = 0
  /\ ~bsdutility => pc \notin {"app_main", "in_run"} /\ run_ret.kind = "none"

\* C16 as stated: on Mac/iOS a BSD utility calls the entry function directly on the
\* calling thread; otherwise, on Mac OS X and on iOS alike, a secondary thread executing
\* run is spawned before the calling thread enters the UI event loop.
C16_Original ==
  platform \in ApplePlatforms =>
     /\ C16_Headless
     /\ ~bsdutility /\ InUILoop => runThread # "none" /\ Count(trace, "run") = 1

\* C16 amended: a BSD utility calls the entry function directly on the calling thread;
\* otherwise Mac OS X spawns the secondary run thread before NSApplicationMain, while iOS
\* spawns no thread: main enters UIApplicationMain at once and the run phase starts with
\* _app_main_pre_loop, called from _app_did_finish_launching on the UI thread.
C16_Amended ==
  platform \in ApplePlatforms =>
     /\ C16_Headless
     /\ ~bsdutility /\ InUILoop /\ platform = "macosx" =>
          runThread # "none" /\ Count(trace, "run") = 1
     /\ platform = "ios" =>
          /\ runThread = "none"
          /\ ~bsdutility => Count(trace, "run") = 0
          /\ Count(trace, "_app_main_pre_loop") = Count(trace, "did_finish_launching")

C16_Witness ==
  /\ platform = "ios" /\ ~bsdutility /\ pc = "ui_loop" /\ runThread = "none"
  /\ Count(trace, "_app_main_pre_loop") = 1

\* C17: every invocation of a termination handler eventually returns, for every control
\* type or signal and every configuration; it waits at most once, for the one-second
\* pause that follows the deferral request.
C17_HandlerReturns ==
  /\ \A i \in Slots : [](h[i].slept <= SLEEP_MS /\ Count(h[i].ops, "sleep") <= 1)
  /\ \A i \in Slots : (h[i].pc # "idle") ~> Done(i)

C17_Witness ==
  \E i \in Slots : harness /\ Done(i) /\ h[i].slept = SLEEP_MS /\ h[i].result = "TRUE"

\* C18: a terminate event is posted only while the lifecycle is between the successful
\* initialize and the start of shutdown: no notification posts an event once shutdown
\* has been called.
C18_PostsOnlyWhileUp ==
  [][events' > events => state \in {"Initialized", "Running", "Terminating"}]_vars

\* C19: on Mac/iOS the bundle handle is released at most once per process: once
\* _app_will_terminate has released _bundle, no later step releases it again.
C19_BundleReleasedOnce == Count(trace, "CFRelease") <= 1

\* C20: on Android, whenever android_initialize succeeded, android_shutdown has been
\* called when android_main returns, also when main_initialize failed.
C20_AndroidShutdown ==
  platform = "android" /\ pc = "done" /\ Count(trace, "android_initialize") = 1 =>
     Count(trace, "android_shutdown") = 1

====
